---- MODULE Spec2Model ----
(***************************************************************************)
(* journal-gather-server, src/serve.py: a threaded HTTP server that keeps  *)
(* one text file per node under LOG_DIR.  POST appends the request body to *)
(* the node's file, GET returns the file, DELETE first runs the retention  *)
(* sweep delete_stale_logs and then removes the node's file.               *)
(*                                                                         *)
(* The model keeps the directory (files), the clock (now), one record per  *)
(* handler thread (th) with the handler's position and locals, and the     *)
(* sweep's locals (sw).  A file is a sequence of chunks, one per write     *)
(* that reached the operating system; every chunk remembers the request    *)
(* that wrote it, so that torn and interleaved appends are visible.        *)
(* POSIX semantics are assumed: O_APPEND writes are atomic, a removed file *)
(* stays writable through handles opened before the removal.               *)
(***************************************************************************)
EXTENDS Integers, Sequences, FiniteSets, TLC

\* ------------------------------------------------------------------ bounds
NThreads == 2
MaxRequests == 3
MaxDays == 1
MaxFaults == 1

\* --------------------------------------------------------------- constants
\* seconds in a day: 24 * 60 * 60 in delete_stale_logs
DaySeconds == 86400
\* days_old that do_DELETE passes to delete_stale_logs
DeleteDaysOld == 1
\* The file object of open(file_path, 'a') keeps what f.write is given until
\* the close, unless it fills the buffer (8192 bytes in CPython): a string of
\* that size or more has reached the operating system in a write of its own
\* by the time the next f.write is flushed.  The model scales the buffer down
\* to 4 bytes.
BufferSize == 4

Threads == 1..NThreads

\* ------------------------------------------------------------ request data
\* self.headers.get('node-id') is None when the header is missing
NoHeader == <<"None">>
\* raw node-id header values, as sequences of characters: the ones the
\* handlers are run on one at a time, and the ones of the concurrent runs
SeqHeaders == { NoHeader, <<"1", ".", "2", ":", "3">> }
ConcHeaders == { NoHeader, <<"n">> }
\* the ones the naming of the file is looked at with: a missing and an empty
\* header, one that is a single whitespace character ("NBSP", a no-break
\* space; the header parser strips only blanks and tabs after the colon),
\* "10.0.0.1:443", and one that starts with a path separator
KeyHeaders ==
    { NoHeader, <<>>, <<"NBSP">>,
      <<"10", ".", "0", ".", "0", ".", "1", ":", "443">>, <<"/", "x">> }
Headers == SeqHeaders \cup ConcHeaders \cup KeyHeaders
\* request bodies, as sequences of bytes: "xFF" is a byte that is not valid
\* UTF-8, "CR" and "LF" are carriage return and line feed
SeqBodies == { <<"b", "b", "b", "CR">>, <<"xFF", "a">> }
ConcBodies == { <<"a">>, <<"b", "b", "b", "b">> }
KeyBodies == { <<"a">> }
\* days_old values of a direct call of delete_stale_logs
DaysOldValues == {0, 1, 2}

\* node_ip.replace(':', '_').replace('.', '_')
Clean(s) == [i \in 1..Len(s) |-> IF s[i] \in {":", "."} THEN "_" ELSE s[i]]

\* `if node_ip:` is false for a missing and for an empty header
HasNodeId(h) == h # NoHeader /\ h # <<>>

\* f"{clean_node_ip}.txt", or "unknown_node.txt" in do_POST
FileName(h) == Clean(h) \o <<".txt">>
UnknownNode == <<"unknown_node", ".txt">>
PostFileName(h) == IF HasNodeId(h) THEN FileName(h) ELSE UnknownNode

\* every file name the handlers can build
Paths == { PostFileName(h) : h \in Headers }

\* LOG_DIR, and os.path.join(LOG_DIR, filename): a file name that starts
\* with a separator is an absolute path, and join returns it as it is
LogDir == <<"/", "logs">>
Join(dir, name) ==
    IF name # <<>> /\ name[1] = "/" THEN name ELSE dir \o <<"/">> \o name
FilePath(name) == Join(LogDir, name)
\* the path lies in the tree os.walk(LOG_DIR) goes through
InLogDir(path) ==
    /\ Len(path) > Len(LogDir) + 1
    /\ SubSeq(path, 1, Len(LogDir) + 1) = LogDir \o <<"/">>

\* post_body_bytes.decode('utf-8'), with the UnicodeDecodeError fallback
Undecodable(b) == <<"[Undecodable binary data, ", ToString(Len(b)), " bytes]">>
Decode(b) ==
    IF \E i \in 1..Len(b) : b[i] = "xFF" THEN Undecodable(b) ELSE b

\* open(file_path, 'r') reads with universal newlines: "\r\n" and "\r"
\* both come back as "\n"
RECURSIVE Universal(_)
Universal(s) ==
    IF s = <<>> THEN <<>>
    ELSE IF s[1] = "CR"
         THEN IF Len(s) > 1 /\ s[2] = "LF"
              THEN <<"LF">> \o Universal(SubSeq(s, 3, Len(s)))
              ELSE <<"LF">> \o Universal(Tail(s))
         ELSE <<s[1]>> \o Universal(Tail(s))

\* ------------------------------------------------------------------ state
VARIABLES
    now,        \* time.time(), in seconds
    dirExists,  \* os.path.isdir(LOG_DIR)
    files,      \* path -> the file at that path, or NoFile
    th,         \* thread -> the handler's position and locals
    sw,         \* thread -> the locals of delete_stale_logs
    nreq,       \* requests accepted so far
    faults,     \* storage errors raised so far
    acked,      \* POST requests answered 200
    delivered,  \* POST requests whose payload a GET has returned
    radLost,    \* POST requests removed by a DELETE that followed a GET
    removed,    \* POST requests whose whole output was in a removed file
    rad,        \* path -> a GET of it succeeded and no DELETE of it ended since
    appended    \* path -> bodies appended with a 200 since it was last absent

vars == <<now, dirExists, files, th, sw, nreq, faults, acked, delivered,
          radLost, removed, rad, appended>>

NoFile == [ino |-> 0, chunks |-> <<>>, mtime |-> 0]
Present(f) == f.ino # 0

RECURSIVE Flatten(_)
Flatten(cs) == IF cs = <<>> THEN <<>> ELSE Head(cs).data \o Flatten(Tail(cs))
\* the bytes of a file
Content(f) == Flatten(f.chunks)

Idle ==
    [pc |-> "idle", method |-> "-", id |-> FALSE, body |-> <<>>, rid |-> 0,
     path |-> <<>>, h |-> 0, pend |-> <<>>, first |-> TRUE, resp |-> <<>>,
     out |-> <<>>, torn |-> FALSE, absent0 |-> FALSE]
NoSweep ==
    [todo |-> {}, cur |-> <<>>, cutoff |-> 0, days |-> 0, dry |-> FALSE,
     direct |-> FALSE, listed |-> {}, deleted |-> 0, skipped |-> 0,
     errs |-> {}, before |-> <<>>]

Init ==
    /\ now = 0
    /\ dirExists \in BOOLEAN
    /\ files = [p \in Paths |-> NoFile]
    /\ th = [t \in Threads |-> Idle]
    /\ sw = [t \in Threads |-> NoSweep]
    /\ nreq = 0
    /\ faults = 0
    /\ acked = {}
    /\ delivered = {}
    /\ radLost = {}
    /\ removed = {}
    /\ rad = [p \in Paths |-> FALSE]
    /\ appended = [p \in Paths |-> <<>>]


\* ------------------------------------------------------- storage operations
\* open(file_path, 'a') of an absent file creates it, empty; ino names the
\* file object the handle stays bound to
Create(ino) == [ino |-> ino, chunks |-> <<>>, mtime |-> now]
OpenAppend(fs, p, ino) ==
    IF Present(fs[p]) THEN fs ELSE [fs EXCEPT ![p] = Create(ino)]

\* one write(2) on a handle opened with O_APPEND: the bytes go to the end of
\* the file in one piece; when the file was removed after the open they go to
\* the removed file and the directory does not change
WriteOverwrites(f, c) == [f EXCEPT !.chunks = <<c>>, !.mtime = now]
WriteAppends(f, c) == [f EXCEPT !.chunks = Append(@, c), !.mtime = now]
OsWrite(fs, p, h, c) ==
    IF Present(fs[p]) /\ fs[p].ino = h
    THEN [fs EXCEPT ![p] = WriteAppends(fs[p], c)]
    ELSE fs

\* os.remove(file_path)
Truncates(fs, p) == [fs EXCEPT ![p].chunks = <<>>]
Remove(fs, p) == [fs EXCEPT ![p] = NoFile]

\* A chunk is [by, data, first, last, body]: the request that wrote it, the
\* bytes, whether it starts and whether it ends the request's output, and
\* (on the first chunk) the request body the bytes were made from.
\* the requests whose first chunk (the payload) is in chunk sequence cs
PayloadIn(cs) == { cs[i].by : i \in { j \in 1..Len(cs) : cs[j].first } }
\* the requests whose whole output is in cs
WholeIn(cs) ==
    { r \in PayloadIn(cs) : \E i \in 1..Len(cs) : cs[i].by = r /\ cs[i].last }
\* the requests that still hold file object ino open for appending
Writers(ino) ==
    { th[t].rid : t \in { u \in Threads :
          th[u].pc \in {"post_write", "post_close"} /\ th[u].h = ino } }


\* ------------------------------------------------------------------- clock
\* time passes, by a second or by a day, up to a second past MaxDays days
Tick ==
    /\ \E d \in {1, DaySeconds} :
         /\ now + d <= MaxDays * DaySeconds + 1
         /\ (now + d) % DaySeconds <= 1
         /\ now' = now + d
    /\ UNCHANGED <<dirExists, files, th, sw, nreq, faults, acked, delivered,
                   radLost, removed, rad, appended>>

\* ------------------------------------------------------------------ do_POST
\* lines 96-118 and 141: makedirs, the file name, the body, open for append
DoPost(t, H, B) ==
    /\ th[t].pc = "idle"
    /\ nreq < MaxRequests
    /\ \E h \in H, b \in B :
         LET p == PostFileName(h)
             fs == OpenAppend(files, p, nreq + 1)
         IN /\ files' = fs
            /\ th' = [th EXCEPT ![t] =
                        [Idle EXCEPT !.pc = "post_write", !.method = "POST",
                                     !.id = HasNodeId(h), !.body = b,
                                     !.rid = nreq + 1, !.path = p,
                                     !.h = fs[p].ino,
                                     !.absent0 = ~Present(files[p])]]
    /\ dirExists' = TRUE
    /\ nreq' = nreq + 1
    /\ UNCHANGED <<now, sw, faults, acked, delivered, radLost, removed, rad,
                   appended>>

\* line 98, os.makedirs raising OSError (LOG_DIR is missing and cannot be
\* created): the call is outside every try, the exception leaves do_POST and
\* the connection is closed without an answer
PostMakedirsFails(t, H, B) ==
    /\ th[t].pc = "idle"
    /\ nreq < MaxRequests
    /\ faults < MaxFaults
    /\ ~dirExists
    /\ \E h \in H, b \in B :
         th' = [th EXCEPT ![t] =
                  [Idle EXCEPT !.pc = "done", !.method = "POST",
                               !.id = HasNodeId(h), !.body = b,
                               !.rid = nreq + 1, !.path = PostFileName(h),
                               !.absent0 = ~Present(files[PostFileName(h)]),
                               !.resp = <<>>]]
    /\ nreq' = nreq + 1
    /\ faults' = faults + 1
    /\ UNCHANGED <<now, dirExists, files, sw, acked, delivered, radLost,
                   removed, rad, appended>>

\* line 141 raising IOError: the except branch of lines 147-150 answers 500
PostOpenFails(t, H, B) ==
    /\ th[t].pc = "idle"
    /\ nreq < MaxRequests
    /\ faults < MaxFaults
    /\ \E h \in H, b \in B :
         th' = [th EXCEPT ![t] =
                  [Idle EXCEPT !.pc = "done", !.method = "POST",
                               !.id = HasNodeId(h), !.body = b,
                               !.rid = nreq + 1, !.path = PostFileName(h),
                               !.absent0 = ~Present(files[PostFileName(h)]),
                               !.resp = <<500>>]]
    /\ dirExists' = TRUE
    /\ nreq' = nreq + 1
    /\ faults' = faults + 1
    /\ UNCHANGED <<now, files, sw, acked, delivered, radLost, removed, rad,
                   appended>>

\* line 141: whether a written string waits in the file object's buffer
Buffered(text) == Len(text) < BufferSize

\* line 142, f.write(post_body_str): a string that fills the buffer reaches
\* the file in a write of its own, a shorter one waits in the buffer
PostWrite(t) ==
    /\ th[t].pc = "post_write"
    /\ LET text == Decode(th[t].body)
       IN IF ~Buffered(text)
          THEN /\ files' = OsWrite(files, th[t].path, th[t].h,
                                   [by |-> th[t].rid, data |-> text,
                                    first |-> TRUE, last |-> FALSE,
                                    body |-> th[t].body])
               /\ th' = [th EXCEPT ![t].pc = "post_close", ![t].first = FALSE]
          ELSE /\ files' = files
               /\ th' = [th EXCEPT ![t].pc = "post_close", ![t].pend = text]
    /\ UNCHANGED <<now, dirExists, sw, nreq, faults, acked, delivered, radLost,
                   removed, rad, appended>>

\* lines 143-146: f.write("\n"), the close that flushes the buffer in one
\* write, and the 200 answer
Landed(t) == Present(files[th[t].path]) /\ files[th[t].path].ino = th[t].h
PostClose(t) ==
    /\ th[t].pc = "post_close"
    /\ files' = OsWrite(files, th[t].path, th[t].h,
                        [by |-> th[t].rid, data |-> th[t].pend \o <<"LF">>,
                         first |-> th[t].first, last |-> TRUE,
                         body |-> IF th[t].first THEN th[t].body ELSE <<>>])
    /\ th' = [th EXCEPT ![t].pc = "done", ![t].resp = <<200>>, ![t].pend = <<>>]
    /\ acked' = acked \cup {th[t].rid}
    /\ appended' = IF Landed(t)
                   THEN [appended EXCEPT ![th[t].path] = Append(@, th[t].body)]
                   ELSE appended
    /\ UNCHANGED <<now, dirExists, sw, nreq, faults, delivered, radLost,
                   removed, rad>>

\* a write or the close raising IOError (disk full): lines 147-150 answer
\* 500; what an earlier write put in the file stays there
PostWriteFails(t) ==
    /\ th[t].pc \in {"post_write", "post_close"}
    /\ faults < MaxFaults
    /\ th' = [th EXCEPT ![t].pc = "done", ![t].resp = <<500>>, ![t].pend = <<>>]
    /\ faults' = faults + 1
    /\ UNCHANGED <<now, dirExists, files, sw, nreq, acked, delivered, radLost,
                   removed, rad, appended>>

\* the handler returns and its thread ends; the next request gets a new one
Return(t) ==
    /\ th[t].pc = "done"
    /\ th' = [th EXCEPT ![t] = Idle]
    /\ sw' = [sw EXCEPT ![t] = NoSweep]
    /\ UNCHANGED <<now, dirExists, files, nreq, faults, acked, delivered,
                   radLost, removed, rad, appended>>

\* ------------------------------------------------------------------- do_GET
\* lines 163-188: 400 without a node-id, 404 when the file does not exist
DoGet(t, H) ==
    /\ th[t].pc = "idle"
    /\ nreq < MaxRequests
    /\ \E h \in H :
         LET p == IF HasNodeId(h) THEN FileName(h) ELSE <<>>
             r == [Idle EXCEPT !.method = "GET", !.id = HasNodeId(h),
                               !.rid = nreq + 1, !.path = p]
         IN th' = [th EXCEPT ![t] =
                     IF ~HasNodeId(h)
                     THEN [r EXCEPT !.pc = "done", !.resp = <<400>>]
                     ELSE IF ~Present(files[p])
                          THEN [r EXCEPT !.pc = "done", !.resp = <<404>>,
                                         !.absent0 = TRUE]
                          ELSE [r EXCEPT !.pc = "get_read"]]
    /\ nreq' = nreq + 1
    /\ UNCHANGED <<now, dirExists, files, sw, faults, acked, delivered,
                   radLost, removed, rad, appended>>

\* lines 190-199 read the file and leave the directory as it is
ReadRemoves(fs, p) == Remove(fs, p)
ReadKeeps(fs, p) == fs

\* lines 190-199: open, read the whole file as text, answer 200 with it; a
\* file removed since the check makes open raise, and lines 201-206 answer 500
GetRead(t) ==
    /\ th[t].pc = "get_read"
    /\ LET f == files[th[t].path]
       IN IF ~Present(f)
          THEN /\ th' = [th EXCEPT ![t].pc = "done", ![t].resp = <<500>>]
               /\ UNCHANGED <<files, delivered, rad>>
          ELSE /\ files' = ReadKeeps(files, th[t].path)
               /\ th' = [th EXCEPT ![t].pc = "done", ![t].resp = <<200>>,
                                   ![t].out = Universal(Content(f)),
                                   ![t].torn =
                                       (PayloadIn(f.chunks) \ WholeIn(f.chunks))
                                           \cap Writers(f.ino) # {}]
               /\ delivered' = delivered \cup PayloadIn(f.chunks)
               /\ rad' = [rad EXCEPT ![th[t].path] = TRUE]
    /\ UNCHANGED <<now, dirExists, sw, nreq, faults, acked, radLost,
                   removed, appended>>

\* open or read raising IOError: lines 201-206 answer 500
GetReadFails(t) ==
    /\ th[t].pc = "get_read"
    /\ faults < MaxFaults
    /\ th' = [th EXCEPT ![t].pc = "done", ![t].resp = <<500>>]
    /\ faults' = faults + 1
    /\ UNCHANGED <<now, dirExists, files, sw, nreq, acked, delivered, radLost,
                   removed, rad, appended>>

\* -------------------------------------------------------- delete_stale_logs
\* line 38
Cutoff(days) == now - days * 24 * 60 * 60
\* line 60
StaleOrEqual(mtime, cutoff) == mtime <= cutoff
Stale(mtime, cutoff) == mtime < cutoff

\* line 62: a dry run counts the file and leaves it
DryRunIgnored(dry) == FALSE
OnlyReport(dry) == dry

\* lines 32-51: the isdir check, the cutoff, and os.walk's listing of the
\* files in LOG_DIR; before keeps the directory as a direct call found it
Listing ==
    IF dirExists
    THEN { p \in Paths : Present(files[p]) /\ InLogDir(FilePath(p)) }
    ELSE {}
SweepBegin(days, dry, direct) ==
    [NoSweep EXCEPT !.todo = Listing, !.listed = Listing,
                    !.cutoff = Cutoff(days), !.days = days, !.dry = dry,
                    !.direct = direct,
                    !.before = IF direct THEN files ELSE <<>>]

\* a call of delete_stale_logs(days_old, dry_run) from outside the handlers
CallSweep(t) ==
    /\ th[t].pc = "idle"
    /\ nreq < MaxRequests
    /\ \E days \in DaysOldValues, dry \in BOOLEAN :
         sw' = [sw EXCEPT ![t] = SweepBegin(days, dry, TRUE)]
    /\ th' = [th EXCEPT ![t] =
                [Idle EXCEPT !.pc = "sweep", !.method = "SWEEP",
                             !.rid = nreq + 1]]
    /\ nreq' = nreq + 1
    /\ UNCHANGED <<now, dirExists, files, faults, acked, delivered, radLost,
                   removed, rad, appended>>

\* lines 52-55 and 74-77: the try is inside the for loop, so after a file
\* whose processing raised the loop goes on with the files not yet visited
ScanAborts(todo, p) == {}
Remaining(todo, p) == todo \ {p}

\* lines 52-72 for one listed file: getmtime and the comparison; a file that
\* has gone makes getmtime raise OSError (lines 74-75)
SweepStat(t) ==
    /\ th[t].pc = "sweep"
    /\ \E p \in sw[t].todo :
         LET f == files[p]
             s == [sw[t] EXCEPT !.todo = Remaining(@, p)]
         IN IF ~Present(f)
            THEN /\ sw' = [sw EXCEPT ![t] = [s EXCEPT !.errs = @ \cup {p}]]
                 /\ th' = th
            ELSE IF Stale(f.mtime, sw[t].cutoff)
                 THEN IF OnlyReport(sw[t].dry)
                      THEN /\ sw' = [sw EXCEPT ![t] =
                                       [s EXCEPT !.deleted = @ + 1]]
                           /\ th' = th
                      ELSE /\ sw' = [sw EXCEPT ![t] = [s EXCEPT !.cur = p]]
                           /\ th' = [th EXCEPT ![t].pc = "sweep_rm"]
                 ELSE /\ sw' = [sw EXCEPT ![t] = [s EXCEPT !.skipped = @ + 1]]
                      /\ th' = th
    /\ UNCHANGED <<now, dirExists, files, nreq, faults, acked, delivered,
                   radLost, removed, rad, appended>>

\* getmtime raising OSError for another reason: lines 74-75, next file
SweepStatFails(t) ==
    /\ th[t].pc = "sweep"
    /\ faults < MaxFaults
    /\ \E p \in sw[t].todo :
         sw' = [sw EXCEPT ![t].todo = Remaining(@, p), ![t].errs = @ \cup {p}]
    /\ faults' = faults + 1
    /\ UNCHANGED <<now, dirExists, files, th, nreq, acked, delivered, radLost,
                   removed, rad, appended>>

\* lines 66-68: os.remove and the count; a file that has gone makes it raise
SweepRemove(t) ==
    /\ th[t].pc = "sweep_rm"
    /\ LET p == sw[t].cur
           f == files[p]
       IN IF ~Present(f)
          THEN /\ sw' = [sw EXCEPT ![t].errs = @ \cup {p}, ![t].cur = <<>>]
               /\ UNCHANGED <<files, removed, appended>>
          ELSE /\ files' = Remove(files, p)
               /\ removed' = removed \cup WholeIn(f.chunks)
               /\ appended' = [appended EXCEPT ![p] = <<>>]
               /\ sw' = [sw EXCEPT ![t].deleted = @ + 1, ![t].cur = <<>>]
    /\ th' = [th EXCEPT ![t].pc = "sweep"]
    /\ UNCHANGED <<now, dirExists, nreq, faults, acked, delivered, radLost,
                   rad>>

\* os.remove raising OSError (permission denied): lines 74-75, next file
SweepRemoveFails(t) ==
    /\ th[t].pc = "sweep_rm"
    /\ faults < MaxFaults
    /\ sw' = [sw EXCEPT ![t].errs = @ \cup {sw[t].cur}, ![t].cur = <<>>]
    /\ th' = [th EXCEPT ![t].pc = "sweep"]
    /\ faults' = faults + 1
    /\ UNCHANGED <<now, dirExists, files, nreq, acked, delivered, radLost,
                   removed, rad, appended>>

\* lines 82-88: the summary; a direct call returns, do_DELETE goes on
SweepEnd(t) ==
    /\ th[t].pc = "sweep"
    /\ sw[t].todo = {}
    /\ th' = [th EXCEPT ![t].pc = IF sw[t].direct THEN "done" ELSE "del_check"]
    /\ UNCHANGED <<now, dirExists, files, sw, nreq, faults, acked, delivered,
                   radLost, removed, rad, appended>>

\* ---------------------------------------------------------------- do_DELETE
\* line 215: every DELETE starts with delete_stale_logs(days_old=1,
\* dry_run=False)
DoDelete(t, H) ==
    /\ th[t].pc = "idle"
    /\ nreq < MaxRequests
    /\ \E h \in H :
         LET p == IF HasNodeId(h) THEN FileName(h) ELSE <<>>
         IN th' = [th EXCEPT ![t] =
                     [Idle EXCEPT !.pc = "sweep", !.method = "DELETE",
                                  !.id = HasNodeId(h), !.rid = nreq + 1,
                                  !.path = p,
                                  !.absent0 = IF HasNodeId(h)
                                              THEN ~Present(files[p])
                                              ELSE FALSE]]
    /\ sw' = [sw EXCEPT ![t] = SweepBegin(DeleteDaysOld, FALSE, FALSE)]
    /\ nreq' = nreq + 1
    /\ UNCHANGED <<now, dirExists, files, faults, acked, delivered, radLost,
                   removed, rad, appended>>

\* lines 217-242: 400 without a node-id, 404 when the file does not exist
DelCheck(t) ==
    /\ th[t].pc = "del_check"
    /\ IF ~th[t].id
       THEN /\ th' = [th EXCEPT ![t].pc = "done", ![t].resp = <<400>>]
            /\ rad' = rad
       ELSE IF ~Present(files[th[t].path])
            THEN /\ th' = [th EXCEPT ![t].pc = "done", ![t].resp = <<404>>]
                 /\ rad' = [rad EXCEPT ![th[t].path] = FALSE]
            ELSE /\ th' = [th EXCEPT ![t].pc = "del_rm"]
                 /\ rad' = rad
    /\ UNCHANGED <<now, dirExists, files, sw, nreq, faults, acked, delivered,
                   radLost, removed, appended>>

\* lines 246-249 and 258-263: send_response(200), then line 249 raises
\* AttributeError (self.wfile has no attribute logging), which the except
\* Exception branch answers with send_response(500)
DeleteOk == <<200, 500>>

\* lines 244-257: os.remove; a file that has gone makes it raise OSError,
\* answered 500
DelRemove(t) ==
    /\ th[t].pc = "del_rm"
    /\ LET p == th[t].path
           f == files[p]
       IN IF ~Present(f)
          THEN /\ th' = [th EXCEPT ![t].pc = "done", ![t].resp = <<500>>]
               /\ UNCHANGED <<files, removed, radLost, appended>>
          ELSE /\ files' = Remove(files, p)
               /\ th' = [th EXCEPT ![t].pc = "done", ![t].resp = DeleteOk]
               /\ appended' = [appended EXCEPT ![p] = <<>>]
               /\ removed' = removed \cup WholeIn(f.chunks)
               /\ radLost' = IF rad[p]
                             THEN radLost \cup PayloadIn(f.chunks)
                                          \cup Writers(f.ino)
                             ELSE radLost
    /\ rad' = [rad EXCEPT ![th[t].path] = FALSE]
    /\ UNCHANGED <<now, dirExists, sw, nreq, faults, acked, delivered>>

\* os.remove raising OSError (permission denied): lines 252-257 answer 500
DelRemoveFails(t) ==
    /\ th[t].pc = "del_rm"
    /\ faults < MaxFaults
    /\ th' = [th EXCEPT ![t].pc = "done", ![t].resp = <<500>>]
    /\ rad' = [rad EXCEPT ![th[t].path] = FALSE]
    /\ faults' = faults + 1
    /\ UNCHANGED <<now, dirExists, files, sw, nreq, acked, delivered, radLost,
                   removed, appended>>

\* --------------------------------------------------------- specifications
PostStep(t, H, B) ==
    \/ DoPost(t, H, B)
    \/ PostMakedirsFails(t, H, B)
    \/ PostOpenFails(t, H, B)
    \/ PostWrite(t)
    \/ PostClose(t)
    \/ PostWriteFails(t)
    \/ Return(t)

SweepStep(t) ==
    \/ SweepStat(t)
    \/ SweepStatFails(t)
    \/ SweepRemove(t)
    \/ SweepRemoveFails(t)
    \/ SweepEnd(t)

ServerStep(t, H, B) ==
    \/ PostStep(t, H, B)
    \/ DoGet(t, H)
    \/ GetRead(t)
    \/ GetReadFails(t)
    \/ DoDelete(t, H)
    \/ SweepStep(t)
    \/ DelCheck(t)
    \/ DelRemove(t)
    \/ DelRemoveFails(t)

\* ThreadedHTTPServer: every request is handled in a thread of its own
Next == (\E t \in Threads : ServerStep(t, ConcHeaders, ConcBodies)) \/ Tick
Spec == Init /\ [][Next]_vars

\* the same handlers with one request at a time
SeqNext == ServerStep(1, SeqHeaders, SeqBodies) \/ Tick
SeqSpec == Init /\ [][SeqNext]_vars

\* concurrent POST requests only
AppendNext == \E t \in Threads : PostStep(t, ConcHeaders, ConcBodies)
AppendSpec == Init /\ [][AppendNext]_vars

\* delete_stale_logs called on a directory that earlier runs of the server
\* left behind: each path absent, or a file last written at one of OldTimes
OldTimes == {0, DaySeconds - 1, DaySeconds, DaySeconds + 1, 2 * DaySeconds}
\* the files of that directory
OldPaths == { PostFileName(h) : h \in SeqHeaders \cup ConcHeaders }
OldFile(m) ==
    [ino |-> -1, mtime |-> m,
     chunks |-> << [by |-> 0, data |-> <<"a", "LF">>, first |-> TRUE,
                    last |-> TRUE, body |-> <<"a">>] >>]
DirInit(times, paths) ==
    /\ now = 2 * DaySeconds
    /\ files \in { fs \in [Paths -> {NoFile} \cup { OldFile(m) : m \in times }] :
                      \A p \in Paths \ paths : fs[p] = NoFile }
    /\ dirExists \in
           {TRUE} \cup { b \in {FALSE} : \A p \in Paths : ~Present(files[p]) }
    /\ th = [t \in Threads |-> Idle]
    /\ sw = [t \in Threads |-> NoSweep]
    /\ nreq = 0
    /\ faults = 0
    /\ acked = {}
    /\ delivered = {}
    /\ radLost = {}
    /\ removed = {}
    /\ rad = [p \in Paths |-> FALSE]
    /\ appended = [p \in Paths |-> <<>>]
SweepInit == DirInit(OldTimes, OldPaths)
SweepNext == CallSweep(1) \/ SweepStep(1) \/ Return(1)
SweepSpec == SweepInit /\ [][SweepNext]_vars

\* the same call while a DELETE request is handled in another thread
DeleteStep(t, H) ==
    \/ DoDelete(t, H)
    \/ SweepStep(t)
    \/ DelCheck(t)
    \/ DelRemove(t)
    \/ DelRemoveFails(t)
    \/ Return(t)
\* on a directory of logs that are two days old or just written
RaceTimes == {0, 2 * DaySeconds}
RacePaths == { PostFileName(h) : h \in ConcHeaders }
RaceInit == DirInit(RaceTimes, RacePaths)
RaceNext == SweepNext \/ DeleteStep(2, ConcHeaders)
RaceSpec == RaceInit /\ [][RaceNext]_vars

\* the handlers, one request at a time, on the node-ids of KeyHeaders
KeyNext == ServerStep(1, KeyHeaders, KeyBodies) \/ Tick
KeySpec == Init /\ [][KeyNext]_vars

\* ------------------------------------------------------------------ claims
\* a handler that has answered
Done(t, m) == th[t].pc = "done" /\ th[t].method = m
\* the first status line of the answer, the one an HTTP client reads
Status(t) == IF th[t].resp = <<>> THEN 0 ELSE Head(th[t].resp)
\* every request that put bytes in the file put its whole output there
Whole(f) == PayloadIn(f.chunks) = WholeIn(f.chunks)
\* a GET answered 200 for a file that holds exactly two successful appends
ReadAfterTwoAppends(t) ==
    /\ Done(t, "GET")
    /\ Status(t) = 200
    /\ Len(appended[th[t].path]) = 2
    /\ Whole(files[th[t].path])

StoredFor(b) ==
    (IF \E i \in 1..Len(b) : b[i] = "xFF"
     THEN <<"[Undecodable binary data, ", ToString(Len(b)), " bytes]">>
     ELSE b) \o <<"LF">>
RECURSIVE ReadBack(_)
ReadBack(s) ==
    IF s = <<>> THEN <<>>
    ELSE IF s[1] = "CR" /\ Len(s) > 1 /\ s[2] = "LF"
         THEN <<"LF">> \o ReadBack(SubSeq(s, 3, Len(s)))
         ELSE <<IF s[1] = "CR" THEN "LF" ELSE s[1]>> \o ReadBack(Tail(s))

C4_RetrievalRemovesLog ==
    \A t \in Threads :
        Done(t, "GET") /\ Status(t) = 200 => ~Present(files[th[t].path])

\* C4, amended: a GET that answered 200 leaves the log in place, holding
\* what the GET returned; only DELETE and the sweep remove a log.
C4_RetrievalKeepsLog ==
    \A t \in Threads :
        Done(t, "GET") /\ Status(t) = 200 =>
            /\ Present(files[th[t].path])
            /\ ReadBack(Content(files[th[t].path])) = th[t].out

\* a GET answered 200 with a log that holds an append
C4_Witness ==
    \E t \in Threads :
        /\ Done(t, "GET")
        /\ Status(t) = 200
        /\ Len(appended[th[t].path]) >= 1
        /\ th[t].out # <<>>

\* a direct call of delete_stale_logs that has returned
Swept(t, dry) == Done(t, "SWEEP") /\ sw[t].dry = dry
\* the log was last modified more than days_old days before the sweep
Older(f, days) == now - f.mtime > days * DaySeconds
\* the logs the sweep found older than days_old and processed without error
OldLogs(t) ==
    { p \in Paths : /\ Present(sw[t].before[p])
                    /\ Older(sw[t].before[p], sw[t].days)
                    /\ p \notin sw[t].errs }

C10_DryRunChangesNothing ==
    \A t \in Threads :
        Swept(t, TRUE) =>
            /\ files = sw[t].before
            /\ sw[t].deleted = Cardinality(OldLogs(t))

\* a dry run that counted two logs
C10_Witness ==
    \E t \in Threads :
        /\ Swept(t, TRUE)
        /\ sw[t].deleted = 2
        /\ sw[t].skipped >= 1

\* no handler is running
Quiet == \A t \in Threads : th[t].pc \in {"idle", "done"}
\* the chunks one request wrote to a file lie next to each other
Contiguous(cs) ==
    \A i, j \in 1..Len(cs) : i < j /\ cs[i].by = cs[j].by => j = i + 1
\* the requests whose whole output is in some log of the directory
Stored == UNION { WholeIn(files[p].chunks) : p \in Paths }

\* C2 as claimed: when concurrent POSTs to one key have all returned, the log
\* is the outputs of the calls one after the other in some order: no call's
\* bytes lie between two pieces of another call's output, and every call that
\* answered 200 has its whole output in the log.
C2_AppendsAreAtomic ==
    Quiet =>
        \A p \in Paths :
            /\ Contiguous(files[p].chunks)
            /\ PayloadIn(files[p].chunks) \cap acked
                   \subseteq WholeIn(files[p].chunks)

\* C3 as claimed: a POST that answered 200 and whose log was removed by the
\* DELETE of a retrieve-and-delete (a GET answered 200, then a DELETE of the
\* same key) had its payload in the bytes a GET returned.
C3_RetrieveAndDeleteLosesNothing ==
    (radLost \cap acked) \subseteq delivered

\* C5 as claimed: the whole output of every POST that answered 200 is in the
\* log now present, or was in a log when DELETE or the sweep removed it; and
\* no log holds a part of such an output without the rest.
C5_DeleteWaitsForAppend ==
    /\ acked \subseteq (Stored \cup removed)
    /\ \A p \in Paths :
           PayloadIn(files[p].chunks) \cap acked
               \subseteq WholeIn(files[p].chunks)

\* C6 as claimed: the bytes a GET returns never hold the first part of what
\* a POST still in flight writes without the rest.
C6_ReadIsNeverTorn ==
    \A t \in Threads : Done(t, "GET") => ~th[t].torn

\* C7 as claimed: a GET or DELETE of a key that has no log answers 404, and
\* no step of the request changes the directory (in runs where no storage
\* operation fails).
C7_AbsentKeyIsNotFound ==
    /\ [](\A t \in Threads :
            /\ faults = 0
            /\ Done(t, "GET") \/ Done(t, "DELETE")
            /\ th[t].absent0
            => th[t].resp = <<404>>)
    /\ [][\A t \in Threads :
            /\ faults' = 0
            /\ th'[t].method \in {"GET", "DELETE"}
            /\ th'[t].absent0
            => files' = files]_vars

\* C8 as claimed: a DELETE of a key that has a log removes the log and
\* answers 200; a DELETE or GET of a key that has none, as after that DELETE,
\* answers 404 (in runs where no storage operation fails).
C8_DeleteThenNotFound ==
    \A t \in Threads :
        faults = 0 =>
            /\ Done(t, "DELETE") /\ th[t].id /\ ~th[t].absent0 =>
                   Status(t) = 200 /\ ~Present(files[th[t].path])
            /\ (Done(t, "DELETE") \/ Done(t, "GET")) /\ th[t].absent0 =>
                   Status(t) = 404

\* C11: a call of delete_stale_logs in which the processing of a file raised
\* (the file was removed by a concurrent DELETE after the listing, or getmtime
\* or os.remove failed) returns only when it has visited every listed file:
\* each listed file was counted as deleted, counted as skipped or raised, and
\* every listed log older than days_old that did not raise is gone.
C11_SweepContinuesAfterError ==
    \A t \in Threads :
        Done(t, "SWEEP") /\ sw[t].errs # {} =>
            /\ sw[t].todo = {}
            /\ Cardinality(sw[t].listed) =
                   sw[t].deleted + sw[t].skipped + Cardinality(sw[t].errs)
            /\ ~sw[t].dry =>
                   \A p \in sw[t].listed \ sw[t].errs :
                       Older(sw[t].before[p], sw[t].days) => ~Present(files[p])

\* a sweep that lost a listed file to a concurrent DELETE, with no storage
\* failure, and removed another log itself
C11_Witness ==
    \E t \in Threads :
        /\ Swept(t, FALSE)
        /\ faults = 0
        /\ sw[t].errs # {}
        /\ sw[t].deleted >= 1

\* the path is a single object directly in LOG_DIR
DirectChild(path) ==
    /\ InLogDir(path)
    /\ \A i \in (Len(LogDir) + 2)..Len(path) : path[i] # "/"

\* C12 as claimed: the file of every request answered 200 (an append that
\* stored, a read that returned, a delete that removed) has a name without
\* path separator, colon or null byte, and is a single object directly under
\* LOG_DIR.
C12_KeyStaysUnderLogDir ==
    \A t \in Threads :
        th[t].pc = "done" /\ Status(t) = 200 /\ th[t].path # <<>> =>
            /\ \A i \in 1..Len(th[t].path) :
                   th[t].path[i] \notin {"/", ":", "NUL"}
            /\ DirectChild(FilePath(th[t].path))

\* the key a file name was built from, and a key of whitespace only
KeyOf(name) == SubSeq(name, 1, Len(name) - 1)
Blank(key) == \A i \in 1..Len(key) : key[i] \in {" ", "TAB", "NBSP"}

\* C13 as claimed: no request is served on an empty or whitespace-only key
\* (GET and DELETE answer 400 and name no file, POST names the fallback
\* file); no step of a GET or DELETE without a usable node-id changes the
\* directory; and "10.0.0.1:443" is cleaned to "10_0_0_1_443" (in runs
\* where no storage operation fails).
C13_BlankIdIsRejected ==
    /\ [](\A t \in Threads :
            /\ th[t].pc = "done" /\ th[t].path # <<>> /\ faults = 0 =>
                   ~Blank(KeyOf(th[t].path))
            /\ th[t].pc = "done" /\ th[t].method \in {"GET", "DELETE"}
                   /\ ~th[t].id /\ faults = 0 => th[t].resp = <<400>>)
    /\ [](Clean(<<"10", ".", "0", ".", "0", ".", "1", ":", "443">>)
              = <<"10", "_", "0", "_", "0", "_", "1", "_", "443">>)
    /\ [][\A t \in Threads :
            /\ faults' = 0
            /\ th'[t].method \in {"GET", "DELETE"}
            /\ ~th'[t].id
            => files' = files]_vars

\* C14 as claimed: a GET answered 200 after one POST of body p to an absent
\* log, with nothing else on the key in between, returns p unchanged,
\* whatever bytes p holds.
C14_PayloadRoundTrips ==
    \A t \in Threads :
        /\ Done(t, "GET")
        /\ Status(t) = 200
        /\ Len(appended[th[t].path]) = 1
        /\ Whole(files[th[t].path])
        => th[t].out = appended[th[t].path][1]

\* thread t takes the step
Steps(t) == th'[t] # th[t]
\* chunk sequence cs with more chunks after it
Grown(cs, ds) == Len(ds) > Len(cs) /\ SubSeq(ds, 1, Len(cs)) = cs

\* C15: a step changes the file of a key only in one of three ways: a POST
\* of the key creates the absent file; a POST of the key adds bytes at the
\* end of the present file, which stays the same file; a DELETE or the sweep
\* removes the present file.  A step of a GET changes no file.
C15_LifecycleTransitions ==
    [][/\ \A p \in Paths :
            files'[p] # files[p] =>
                \/ /\ ~Present(files[p])
                   /\ Present(files'[p])
                   /\ \E t \in Threads :
                          Steps(t) /\ th'[t].method = "POST" /\ th'[t].path = p
                \/ /\ Present(files[p])
                   /\ Present(files'[p])
                   /\ files'[p].ino = files[p].ino
                   /\ Grown(files[p].chunks, files'[p].chunks)
                   /\ \E t \in Threads :
                          Steps(t) /\ th[t].method = "POST" /\ th[t].path = p
                \/ /\ Present(files[p])
                   /\ ~Present(files'[p])
                   /\ \E t \in Threads :
                          /\ Steps(t)
                          /\ th[t].method \in {"DELETE", "SWEEP"}
                          /\ th[t].pc \in {"del_rm", "sweep_rm"}
       /\ \A t \in Threads :
            Steps(t) /\ th'[t].method = "GET" => files' = files]_vars

\* a log that was created by one POST, grew by a second one and was removed
\* by a DELETE that answered 200
C15_Witness ==
    \E t \in Threads :
        /\ Done(t, "DELETE")
        /\ Status(t) = 200
        /\ ~Present(files[th[t].path])
        /\ Cardinality(removed \cap acked) = 2

\* C16 as claimed: a step of a POST, GET or DELETE in which a storage
\* operation fails (outside the sweep, which logs and goes on) ends the
\* request with the answer 500, and every request that has ended has sent
\* an answer.
C16_StorageFailureIsReported ==
    /\ [](\A t \in Threads :
            th[t].pc = "done" /\ th[t].method \in {"POST", "GET", "DELETE"}
                => th[t].resp # <<>>)
    /\ [][\A t \in Threads :
            /\ faults' > faults
            /\ Steps(t)
            /\ th[t].pc \notin {"sweep", "sweep_rm"}
            => th'[t].pc = "done" /\ th'[t].resp = <<500>>]_vars

\* C17 as claimed: a request that has ended has sent exactly one status, one
\* of 200, 400, 404 and 500, and a DELETE that removed the log has sent 200
\* and nothing else (in runs where no storage operation fails).
C17_ExactlyOneOutcome ==
    \A t \in Threads :
        /\ faults = 0
        /\ th[t].pc = "done"
        /\ th[t].method \in {"POST", "GET", "DELETE"}
        => /\ Len(th[t].resp) = 1
           /\ th[t].resp[1] \in {200, 400, 404, 500}

\* C18 as claimed: no step of a DELETE request, whatever it answers, changes
\* the file of a key other than the one the request names (in runs where no
\* storage operation fails).
C18_DeleteLeavesOtherKeys ==
    [][\A t \in Threads :
          faults' = 0 /\ Steps(t) /\ th'[t].method = "DELETE" =>
              \A p \in Paths \ {th'[t].path} : files'[p] = files[p]]_vars

\* C19 as claimed: the log the sweep removes is older than days_old at the
\* step that removes it; a log appended to since the sweep looked at its
\* modification time is left in place.
C19_SweepRemovesOnlyStale ==
    [][\A t \in Threads :
          /\ th[t].pc = "sweep_rm"
          /\ Steps(t)
          /\ Present(files[sw[t].cur])
          /\ ~Present(files'[sw[t].cur])
          => Older(files[sw[t].cur], sw[t].days)]_vars

\* C20 as claimed: when delete_stale_logs returns, deleted_count plus
\* skipped_count is the number of files it listed.
C20_CountersCoverListing ==
    \A t \in Threads :
        Done(t, "SWEEP") =>
            sw[t].deleted + sw[t].skipped = Cardinality(sw[t].listed)

====
